---- MODULE Spec2Model ----
(***************************************************************************)
(* Model of bio-rd's route package: the BGP path attribute structures      *)
(* (BGPPath, BGPPathA), the BGPPathA deduplication cache, the decision     *)
(* process (Select, ECMP, Equal), AS-path prepending, Copy, the wire       *)
(* length and the conversion to and from the protobuf form.                *)
(*                                                                         *)
(* Go pointers to slices are modelled as references (positive integers)    *)
(* into typed memories of the heap; Nil is the nil pointer.  A slice is    *)
(* identified with its backing array: every slice in bgp_path.go is made   *)
(* with make() at its exact length and is never re-sliced after that.      *)
(***************************************************************************)
EXTENDS Integers, Sequences, FiniteSets, TLC

VARIABLES
    heap,      \* the memories: BGPPathA instances and backing arrays
    paths,     \* the BGPPath structs in play, by name
    cache,     \* bgpC: the contents of the BGPPathA cache
    cacheMu,   \* bgpC's mutex: 0 when free, else the goroutine holding it
    procs,     \* the goroutines calling Dedup: position, candidate, result
    returned,  \* the calls of Dedup that have returned: candidate and result
    pb,        \* the api.BGPPath message produced by ToProto
    res,       \* the last operation performed and what it returned
    snap,      \* the value of path p observed when p.Copy() returned
    steps,     \* number of mutating calls made so far
    pc         \* position of the sequential caller

vars == <<heap, paths, cache, cacheMu, procs, returned, pb, res, snap,
          steps, pc>>

cacheVars == <<cache, cacheMu, procs, returned>>

Nil == 0

-----------------------------------------------------------------------------
(* Integer widths                                                          *)

Uint8(x)  == x % 256
Uint16(x) == x % 65536

-----------------------------------------------------------------------------
(* protocols/bgp/types                                                     *)

ASSet == 1
ASSequence == 2
MaxASNsSegment == 255

-----------------------------------------------------------------------------
(* net.IP and its protobuf form                                            *)

IP_IPv4 == 0
IP_IPv6 == 1

IPv4(a) == [higher |-> 0, lower |-> a, isLegacy |-> TRUE]
IPv6(h, l) == [higher |-> h, lower |-> l, isLegacy |-> FALSE]

\* (*IP).Compare: -1, 0 or 1 as ip is below, equal to or above other.  The
\* order is the one of the 128-bit value, the version separating an IPv4
\* address from an IPv6 address of the same bits.
Compare(ip, other) ==
    IF ip.higher > other.higher THEN 1
    ELSE IF ip.higher < other.higher THEN -1
    ELSE IF ip.lower > other.lower THEN 1
    ELSE IF ip.lower < other.lower THEN -1
    ELSE IF ip.isLegacy = other.isLegacy THEN 0
    ELSE IF ip.isLegacy THEN -1
    ELSE 1

\* (*IP).ToProto
IPToProto(ip) ==
    [Higher |-> ip.higher, Lower |-> ip.lower,
     Version |-> IF ip.isLegacy THEN IP_IPv4 ELSE IP_IPv6]

\* net.IPFromProtoIP
IPFromProtoIP(addr) ==
    [higher |-> addr.Higher, lower |-> addr.Lower,
     isLegacy |-> (addr.Version = IP_IPv4)]

-----------------------------------------------------------------------------
(* The heap                                                                *)

EmptyHeap ==
    [attrs |-> <<>>,    \* BGPPathA instances
     segs  |-> <<>>,    \* backing arrays of types.ASPath ([]ASPathSegment)
     asns  |-> <<>>,    \* backing arrays of ASPathSegment.ASNs ([]uint32)
     u32s  |-> <<>>,    \* backing arrays of communities and cluster lists
     lcs   |-> <<>>,    \* backing arrays of []types.LargeCommunity
     unk   |-> <<>>]    \* backing arrays of []types.UnknownPathAttribute

\* The memory mem of heap h with array v allocated at the next free address
\* (make(), or & of a composite literal); the address is Len of the result.
Alloc(h, mem, v) == [h EXCEPT ![mem] = Append(@, v)]

\* The memory mem of h with element i of the array at address ref set to v.
Store(h, mem, ref, i, v) == [h EXCEPT ![mem][ref][i] = v]

-----------------------------------------------------------------------------
(* types.ASPath                                                            *)

\* The AS path stored at ref, by value: the segments with their AS numbers.
ASPathValue(h, ref) ==
    [i \in 1..Len(h.segs[ref]) |->
        [Type |-> h.segs[ref][i].Type,
         ASNs |-> IF h.segs[ref][i].ASNs = Nil THEN <<>>
                  ELSE h.asns[h.segs[ref][i].ASNs]]]

RECURSIVE Sum16(_, _, _)
\* The uint16 sum of s[lo..hi]: what a loop adding the elements one after
\* the other to a uint16 ends with (addition modulo 2^16 is associative;
\* the range is halved to keep the evaluation shallow).
Sum16(s, lo, hi) ==
    IF lo > hi THEN 0
    ELSE IF lo = hi THEN Uint16(s[lo])
    ELSE Uint16(Sum16(s, lo, (lo + hi) \div 2)
                + Sum16(s, (lo + hi) \div 2 + 1, hi))

\* (ASPath).Length: a SET counts 1, a SEQUENCE counts its AS numbers.
ASPathLength(pa) ==
    Sum16([i \in 1..Len(pa) |->
              IF pa[i].Type = ASSet THEN 1 ELSE Len(pa[i].ASNs)],
          1, Len(pa))

RECURSIVE FlattenRange(_, _, _)
\* The AS numbers of segments lo..hi of an AS path value, in order.
FlattenRange(pa, lo, hi) ==
    IF lo > hi THEN <<>>
    ELSE IF lo = hi THEN pa[lo].ASNs
    ELSE FlattenRange(pa, lo, (lo + hi) \div 2)
             \o FlattenRange(pa, (lo + hi) \div 2 + 1, hi)

\* The AS numbers of an AS path value, in order, segment after segment.
Flatten(pa) == FlattenRange(pa, 1, Len(pa))

-----------------------------------------------------------------------------
(* BGPPathA and BGPPath                                                    *)

\* A BGPPathA value.  NextHop and Source are held by value (the callers of
\* this package never leave them nil); Aggregator is <<>> when nil and
\* <<a>> when it points to a.
BGPPathA(nh, src, lp, med, id, oid, agg, ebgp, aa, org) ==
    [NextHop |-> nh, Source |-> src, LocalPref |-> lp, MED |-> med,
     BGPIdentifier |-> id, OriginatorID |-> oid, Aggregator |-> agg,
     EBGP |-> ebgp, AtomicAggregate |-> aa, Origin |-> org]

\* Allocates the ASNs array of every segment value of svs, in order.
AllocASNs(h, svs) ==
    [h EXCEPT !.asns = @ \o [i \in 1..Len(svs) |-> svs[i].ASNs]]

\* &BGPPath{...}: a path built from the values of d.  d.A is the BGPPathA
\* value, d.ASPath the segments; the four optional slices are <<>> for a
\* nil pointer and <<s>> for a pointer to s.
BGPPath(h, d) ==
    LET h0 == AllocASNs(h, d.ASPath)
        h1 == Alloc(h0, "segs",
                    [i \in 1..Len(d.ASPath) |->
                        [Type |-> d.ASPath[i].Type,
                         ASNs |-> Len(h.asns) + i]])
        h2 == Alloc(h1, "attrs", d.A)
        h3 == IF d.ClusterList = <<>> THEN h2
              ELSE Alloc(h2, "u32s", d.ClusterList[1])
        h4 == IF d.Communities = <<>> THEN h3
              ELSE Alloc(h3, "u32s", d.Communities[1])
        h5 == IF d.LargeCommunities = <<>> THEN h4
              ELSE Alloc(h4, "lcs", d.LargeCommunities[1])
        h6 == IF d.UnknownAttributes = <<>> THEN h5
              ELSE Alloc(h5, "unk", d.UnknownAttributes[1])
    IN [h |-> h6,
        p |-> [BGPPathA          |-> Len(h2.attrs),
               ASPath            |-> Len(h1.segs),
               ClusterList       |-> IF d.ClusterList = <<>> THEN Nil
                                     ELSE Len(h3.u32s),
               Communities       |-> IF d.Communities = <<>> THEN Nil
                                     ELSE Len(h4.u32s),
               LargeCommunities  |-> IF d.LargeCommunities = <<>> THEN Nil
                                     ELSE Len(h5.lcs),
               UnknownAttributes |-> IF d.UnknownAttributes = <<>> THEN Nil
                                     ELSE Len(h6.unk),
               PathIdentifier    |-> d.PathIdentifier,
               ASPathLen         |-> d.ASPathLen]]

-----------------------------------------------------------------------------
(* The decision process                                                    *)

\* ECMP without the comparison of the MEDs.
ECMPIgnoringMED(h, b, c) ==
    /\ h.attrs[b.BGPPathA].LocalPref = h.attrs[c.BGPPathA].LocalPref
    /\ b.ASPathLen = c.ASPathLen
    /\ h.attrs[b.BGPPathA].Origin = h.attrs[c.BGPPathA].Origin

\* (*BGPPath).ECMP
ECMP(h, b, c) ==
    /\ h.attrs[b.BGPPathA].LocalPref = h.attrs[c.BGPPathA].LocalPref
    /\ b.ASPathLen = c.ASPathLen
    /\ h.attrs[b.BGPPathA].MED = h.attrs[c.BGPPathA].MED
    /\ h.attrs[b.BGPPathA].Origin = h.attrs[c.BGPPathA].Origin

\* The BGP identifier Select compares: the OriginatorID when it is set.
bgpIdentifier(a) ==
    IF a.OriginatorID # 0 THEN a.OriginatorID ELSE a.BGPIdentifier

\* Select with the MED compared before the origin.
SelectMEDBeforeOrigin(h, b, c) ==
    LET bA == h.attrs[b.BGPPathA]
        cA == h.attrs[c.BGPPathA]
        bgpIdentifierC == bgpIdentifier(cA)
        bgpIdentifierB == bgpIdentifier(bA)
    IN  IF cA.LocalPref < bA.LocalPref THEN 1
        ELSE IF cA.LocalPref > bA.LocalPref THEN -1
        ELSE IF c.ASPathLen > b.ASPathLen THEN 1
        ELSE IF c.ASPathLen < b.ASPathLen THEN -1
        ELSE IF cA.MED > bA.MED THEN 1
        ELSE IF cA.MED < bA.MED THEN -1
        ELSE IF cA.Origin > bA.Origin THEN 1
        ELSE IF cA.Origin < bA.Origin THEN -1
        ELSE IF cA.EBGP /\ ~bA.EBGP THEN -1
        ELSE IF ~cA.EBGP /\ bA.EBGP THEN 1
        ELSE IF bgpIdentifierC < bgpIdentifierB THEN 1
        ELSE IF bgpIdentifierC > bgpIdentifierB THEN -1
        ELSE IF Len(h.u32s[c.ClusterList]) < Len(h.u32s[b.ClusterList]) THEN 1
        ELSE IF Len(h.u32s[c.ClusterList]) > Len(h.u32s[b.ClusterList]) THEN -1
        ELSE IF Compare(cA.Source, bA.Source) = -1 THEN 1
        ELSE IF Compare(cA.Source, bA.Source) = 1 THEN -1
        ELSE IF Compare(cA.NextHop, bA.NextHop) = -1 THEN 1
        ELSE IF Compare(cA.NextHop, bA.NextHop) = 1 THEN -1
        ELSE 0

\* Select without the second half of step d): an eBGP path b against an
\* iBGP path c falls through to the BGP identifiers.
SelectHalfEBGP(h, b, c) ==
    LET bA == h.attrs[b.BGPPathA]
        cA == h.attrs[c.BGPPathA]
        bgpIdentifierC == bgpIdentifier(cA)
        bgpIdentifierB == bgpIdentifier(bA)
    IN  IF cA.LocalPref < bA.LocalPref THEN 1
        ELSE IF cA.LocalPref > bA.LocalPref THEN -1
        ELSE IF c.ASPathLen > b.ASPathLen THEN 1
        ELSE IF c.ASPathLen < b.ASPathLen THEN -1
        ELSE IF cA.Origin > bA.Origin THEN 1
        ELSE IF cA.Origin < bA.Origin THEN -1
        ELSE IF cA.MED > bA.MED THEN 1
        ELSE IF cA.MED < bA.MED THEN -1
        ELSE IF cA.EBGP /\ ~bA.EBGP THEN -1
        ELSE IF bgpIdentifierC < bgpIdentifierB THEN 1
        ELSE IF bgpIdentifierC > bgpIdentifierB THEN -1
        ELSE IF Len(h.u32s[c.ClusterList]) < Len(h.u32s[b.ClusterList]) THEN 1
        ELSE IF Len(h.u32s[c.ClusterList]) > Len(h.u32s[b.ClusterList]) THEN -1
        ELSE IF Compare(cA.Source, bA.Source) = -1 THEN 1
        ELSE IF Compare(cA.Source, bA.Source) = 1 THEN -1
        ELSE IF Compare(cA.NextHop, bA.NextHop) = -1 THEN 1
        ELSE IF Compare(cA.NextHop, bA.NextHop) = 1 THEN -1
        ELSE 0

\* (*BGPPath).Select, for paths whose ClusterList is not nil.
Select(h, b, c) ==
    LET bA == h.attrs[b.BGPPathA]
        cA == h.attrs[c.BGPPathA]
        bgpIdentifierC == bgpIdentifier(cA)
        bgpIdentifierB == bgpIdentifier(bA)
    IN  IF cA.LocalPref < bA.LocalPref THEN 1
        ELSE IF cA.LocalPref > bA.LocalPref THEN -1
        ELSE IF c.ASPathLen > b.ASPathLen THEN 1
        ELSE IF c.ASPathLen < b.ASPathLen THEN -1
        ELSE IF cA.Origin > bA.Origin THEN 1
        ELSE IF cA.Origin < bA.Origin THEN -1
        ELSE IF cA.MED > bA.MED THEN 1
        ELSE IF cA.MED < bA.MED THEN -1
        ELSE IF cA.EBGP /\ ~bA.EBGP THEN -1
        ELSE IF ~cA.EBGP /\ bA.EBGP THEN 1
        ELSE IF bgpIdentifierC < bgpIdentifierB THEN 1
        ELSE IF bgpIdentifierC > bgpIdentifierB THEN -1
        ELSE IF Len(h.u32s[c.ClusterList]) < Len(h.u32s[b.ClusterList]) THEN 1
        ELSE IF Len(h.u32s[c.ClusterList]) > Len(h.u32s[b.ClusterList]) THEN -1
        ELSE IF Compare(cA.Source, bA.Source) = -1 THEN 1
        ELSE IF Compare(cA.Source, bA.Source) = 1 THEN -1
        ELSE IF Compare(cA.NextHop, bA.NextHop) = -1 THEN 1
        ELSE IF Compare(cA.NextHop, bA.NextHop) = 1 THEN -1
        ELSE 0

\* (*BGPPath).Equal
Equal(h, b, c) ==
    IF b.PathIdentifier # c.PathIdentifier THEN FALSE
    ELSE Select(h, b, c) = 0

\* (*BGPPath).Select reaches the comparison of the cluster lists when every
\* step before it has tied, and dereferences c.ClusterList and b.ClusterList
\* there without a nil check: a nil pointer is a run-time panic.
SelectPanics(h, b, c) ==
    LET bA == h.attrs[b.BGPPathA]
        cA == h.attrs[c.BGPPathA]
        bgpIdentifierC == bgpIdentifier(cA)
        bgpIdentifierB == bgpIdentifier(bA)
    IN  /\ ~(cA.LocalPref < bA.LocalPref) /\ ~(cA.LocalPref > bA.LocalPref)
        /\ ~(c.ASPathLen > b.ASPathLen) /\ ~(c.ASPathLen < b.ASPathLen)
        /\ ~(cA.Origin > bA.Origin) /\ ~(cA.Origin < bA.Origin)
        /\ ~(cA.MED > bA.MED) /\ ~(cA.MED < bA.MED)
        /\ ~(cA.EBGP /\ ~bA.EBGP) /\ ~(~cA.EBGP /\ bA.EBGP)
        /\ ~(bgpIdentifierC < bgpIdentifierB) /\ ~(bgpIdentifierC > bgpIdentifierB)
        /\ (c.ClusterList = Nil \/ b.ClusterList = Nil)

\* (*BGPPath).Equal panics when its call of Select does.
EqualPanics(h, b, c) ==
    /\ ~(b.PathIdentifier # c.PathIdentifier)
    /\ SelectPanics(h, b, c)

-----------------------------------------------------------------------------
(* The wire length                                                         *)

\* (*UnknownPathAttribute).WireLength: flags, type and length octets, the
\* length taking two octets when the value is longer than 255.
WireLength(u) ==
    Uint16(Len(u.Value) + (IF Len(u.Value) > 255 THEN 1 ELSE 0) + 3)

\* The loop of Length over the segments of the AS path: 3, plus 1 and four
\* times its number of AS numbers for every segment.
asPathLen(h, segments) ==
    Uint16(3 + Sum16([i \in 1..Len(segments) |->
                         1 + Uint16(4 * (IF segments[i].ASNs = Nil THEN 0
                                         ELSE Len(h.asns[segments[i].ASNs])))],
                     1, Len(segments)))

\* The loop of Length over the unknown attributes.
unknownAttributesLen(attrs) ==
    Sum16([i \in 1..Len(attrs) |-> WireLength(attrs[i])], 1, Len(attrs))

\* Length with the segments of the AS path contributing only their AS
\* numbers.
LengthWithoutSegmentOctet(h, b) ==
    LET n == Len(Flatten(ASPathValue(h, b.ASPath)))
        communitiesLen ==
            IF b.Communities # Nil /\ Len(h.u32s[b.Communities]) # 0
            THEN Uint16(3 + Uint16(Len(h.u32s[b.Communities]) * 4)) ELSE 0
        largeCommunitiesLen ==
            IF b.LargeCommunities # Nil /\ Len(h.lcs[b.LargeCommunities]) # 0
            THEN Uint16(3 + Uint16(Len(h.lcs[b.LargeCommunities]) * 12)) ELSE 0
        unknownLen ==
            IF b.UnknownAttributes # Nil
            THEN unknownAttributesLen(h.unk[b.UnknownAttributes]) ELSE 0
        originatorID ==
            IF h.attrs[b.BGPPathA].OriginatorID # 0 THEN 4 ELSE 0
    IN  Uint16(communitiesLen + largeCommunitiesLen + 4 * 7 + 4 + originatorID
               + Uint16(3 + 4 * n) + unknownLen)

\* (*BGPPath).Length.  clusterListLen is computed and left out of the sum.
Length(h, b) ==
    LET pathLen == asPathLen(h, h.segs[b.ASPath])
        communitiesLen ==
            IF b.Communities # Nil /\ Len(h.u32s[b.Communities]) # 0
            THEN Uint16(3 + Uint16(Len(h.u32s[b.Communities]) * 4)) ELSE 0
        largeCommunitiesLen ==
            IF b.LargeCommunities # Nil /\ Len(h.lcs[b.LargeCommunities]) # 0
            THEN Uint16(3 + Uint16(Len(h.lcs[b.LargeCommunities]) * 12)) ELSE 0
        clusterListLen ==
            IF b.ClusterList # Nil /\ Len(h.u32s[b.ClusterList]) # 0
            THEN Uint16(3 + Uint16(Len(h.u32s[b.ClusterList]) * 4)) ELSE 0
        unknownLen ==
            IF b.UnknownAttributes # Nil
            THEN unknownAttributesLen(h.unk[b.UnknownAttributes]) ELSE 0
        originatorID ==
            IF h.attrs[b.BGPPathA].OriginatorID # 0 THEN 4 ELSE 0
    IN  Uint16(communitiesLen + largeCommunitiesLen + 4 * 7 + 4 + originatorID
               + pathLen + unknownLen)

-----------------------------------------------------------------------------
(* Prepend and Copy                                                        *)

\* (*BGPPath).insertNewASSequence: the heap and the path after b.ASPath is
\* replaced by a new array led by an empty SEQUENCE segment.
insertNewASSequence(h, b) ==
    LET h1 == Alloc(h, "asns", <<>>)
        pa == <<[Type |-> ASSequence, ASNs |-> Len(h1.asns)]>>
                  \o h.segs[b.ASPath]
        h2 == Alloc(h1, "segs", pa)
    IN  [h |-> h2, p |-> [b EXCEPT !.ASPath = Len(h2.segs)]]

RECURSIVE prependLoop(_, _, _, _)
\* The for loop of Prepend with n iterations left.
prependLoop(h, b, asn, n) ==
    IF n = 0 THEN [h |-> h, p |-> b]
    ELSE LET r == IF Len(h.segs[b.ASPath]) = MaxASNsSegment
                  THEN insertNewASSequence(h, b)
                  ELSE [h |-> h, p |-> b]
             first == r.h.segs[r.p.ASPath][1]
             old == IF first.ASNs = Nil THEN <<>> ELSE r.h.asns[first.ASNs]
             h1 == Alloc(r.h, "asns", <<asn>> \o old)
             h2 == Store(h1, "segs", r.p.ASPath, 1,
                         [first EXCEPT !.ASNs = Len(h1.asns)])
         IN  prependLoop(h2, r.p, asn, n - 1)

\* Prepend that leaves ASPathLen as it was.
PrependStaleLen(h, b, asn, times) ==
    IF times = 0 THEN [h |-> h, p |-> b]
    ELSE LET r1 == IF Len(h.segs[b.ASPath]) = 0
                   THEN insertNewASSequence(h, b)
                   ELSE [h |-> h, p |-> b]
             r2 == IF r1.h.segs[r1.p.ASPath][1].Type = ASSet
                   THEN insertNewASSequence(r1.h, r1.p)
                   ELSE r1
         IN  prependLoop(r2.h, r2.p, asn, times)

\* (*BGPPath).Prepend: the heap and the path after b.Prepend(asn, times).
Prepend(h, b, asn, times) ==
    IF times = 0 THEN [h |-> h, p |-> b]
    ELSE LET r1 == IF Len(h.segs[b.ASPath]) = 0
                   THEN insertNewASSequence(h, b)
                   ELSE [h |-> h, p |-> b]
             r2 == IF r1.h.segs[r1.p.ASPath][1].Type = ASSet
                   THEN insertNewASSequence(r1.h, r1.p)
                   ELSE r1
             r3 == prependLoop(r2.h, r2.p, asn, times)
         IN  [h |-> r3.h,
              p |-> [r3.p EXCEPT !.ASPathLen =
                        ASPathLength(ASPathValue(r3.h, r3.p.ASPath))]]

\* (*BGPPath).Copy of a non-nil b: the heap after the copy and the copy.
\* copy() of the AS path copies the segments, whose ASNs still refer to the
\* arrays of b; UnknownAttributes is the pointer of b.
Copy(h, b) ==
    LET h1 == Alloc(h, "segs", h.segs[b.ASPath])
        h2 == IF b.Communities # Nil
              THEN Alloc(h1, "u32s", h1.u32s[b.Communities]) ELSE h1
        h3 == IF b.LargeCommunities # Nil
              THEN Alloc(h2, "lcs", h2.lcs[b.LargeCommunities]) ELSE h2
        h4 == IF b.ClusterList # Nil
              THEN Alloc(h3, "u32s", h3.u32s[b.ClusterList]) ELSE h3
    IN  [h |-> h4,
         p |-> [b EXCEPT
                  !.ASPath = Len(h1.segs),
                  !.Communities =
                      IF b.Communities # Nil THEN Len(h2.u32s) ELSE Nil,
                  !.LargeCommunities =
                      IF b.LargeCommunities # Nil THEN Len(h3.lcs) ELSE Nil,
                  !.ClusterList =
                      IF b.ClusterList # Nil THEN Len(h4.u32s) ELSE Nil]]

\* What a reader of path b sees of its per-path sequences: the AS path and
\* ASPathLen, the communities, large communities and cluster list (<<>>
\* for a nil pointer, <<s>> for a pointer to s).
PathValue(h, b) ==
    [ASPath |-> ASPathValue(h, b.ASPath),
     ASPathLen |-> b.ASPathLen,
     Communities |->
         IF b.Communities = Nil THEN <<>> ELSE <<h.u32s[b.Communities]>>,
     LargeCommunities |->
         IF b.LargeCommunities = Nil THEN <<>>
         ELSE <<h.lcs[b.LargeCommunities]>>,
     ClusterList |->
         IF b.ClusterList = Nil THEN <<>> ELSE <<h.u32s[b.ClusterList]>>]

-----------------------------------------------------------------------------
(* The BGPPathA cache                                                      *)

\* (*bgpPathACache).get, between Lock and Unlock: the instance the cache
\* holds for the value of b, or b itself, registered, when it holds none.
\* c maps a BGPPathA value to the address of its canonical instance.
get(c, h, b) ==
    IF h.attrs[b] \in DOMAIN c
    THEN [cache |-> c, ret |-> c[h.attrs[b]]]
    ELSE [cache |-> [k \in DOMAIN c \cup {h.attrs[b]} |->
                        IF k = h.attrs[b] THEN b ELSE c[k]],
          ret |-> b]

\* Dedup that hands b back without consulting the cache.
DedupAUncached(c, h, b) == [cache |-> c, ret |-> b]

\* (*BGPPathA).Dedup
DedupA(c, h, b) == get(c, h, b)

\* (*BGPPath).Dedup
Dedup(c, h, b) ==
    [cache |-> DedupA(c, h, b.BGPPathA).cache,
     p     |-> [b EXCEPT !.BGPPathA = DedupA(c, h, b.BGPPathA).ret]]

-----------------------------------------------------------------------------
(* Conversion to and from the protobuf form                                *)

\* (*ASPath).ToProto
ASPathToProto(pa) ==
    [i \in 1..Len(pa) |->
        [AsSequence |-> (pa[i].Type = ASSequence), Asns |-> pa[i].ASNs]]

\* types.ASPathFromProtoASPath
ASPathFromProtoASPath(segments) ==
    [i \in 1..Len(segments) |->
        [Type |-> IF segments[i].AsSequence THEN ASSequence ELSE ASSet,
         ASNs |-> segments[i].Asns]]

\* (*LargeCommunity).ToProto
LargeCommunityToProto(lc) ==
    [GlobalAdministrator |-> lc.GlobalAdministrator,
     DataPart1 |-> lc.DataPart1, DataPart2 |-> lc.DataPart2]

\* types.LargeCommunityFromProtoCommunity
LargeCommunityFromProtoCommunity(alc) ==
    [GlobalAdministrator |-> alc.GlobalAdministrator,
     DataPart1 |-> alc.DataPart1, DataPart2 |-> alc.DataPart2]

\* (*UnknownPathAttribute).ToProto
UnknownPathAttributeToProto(u) ==
    [Optional |-> u.Optional, Transitive |-> u.Transitive,
     Partial |-> u.Partial, TypeCode |-> u.TypeCode, Value |-> u.Value]

\* types.UnknownPathAttributeFromProtoUnknownPathAttribute
UnknownPathAttributeFromProtoUnknownPathAttribute(x) ==
    [Optional |-> x.Optional, Transitive |-> x.Transitive,
     Partial |-> x.Partial, TypeCode |-> x.TypeCode, Value |-> x.Value]

\* (*BGPPath).ToProto of a non-nil b whose pointers are not nil.
ToProto(h, b) ==
    [PathIdentifier    |-> b.PathIdentifier,
     NextHop           |-> IPToProto(h.attrs[b.BGPPathA].NextHop),
     LocalPref         |-> h.attrs[b.BGPPathA].LocalPref,
     AsPath            |-> ASPathToProto(ASPathValue(h, b.ASPath)),
     Origin            |-> h.attrs[b.BGPPathA].Origin,
     Med               |-> h.attrs[b.BGPPathA].MED,
     Ebgp              |-> h.attrs[b.BGPPathA].EBGP,
     BgpIdentifier     |-> h.attrs[b.BGPPathA].BGPIdentifier,
     Source            |-> IPToProto(h.attrs[b.BGPPathA].Source),
     Communities       |-> h.u32s[b.Communities],
     LargeCommunities  |->
         [i \in 1..Len(h.lcs[b.LargeCommunities]) |->
             LargeCommunityToProto(h.lcs[b.LargeCommunities][i])],
     UnknownAttributes |->
         [i \in 1..Len(h.unk[b.UnknownAttributes]) |->
             UnknownPathAttributeToProto(h.unk[b.UnknownAttributes][i])],
     OriginatorId      |-> h.attrs[b.BGPPathA].OriginatorID,
     ClusterList       |-> h.u32s[b.ClusterList]]

\* What BGPPathFromProtoBGPPath builds before it calls Dedup: the BGPPathA
\* and the AS path of the message, PathIdentifier, and nothing else (no
\* Aggregator, no AtomicAggregate, ASPathLen left at 0).
pathLiteralFromProto(m) ==
    [A |-> BGPPathA(IPFromProtoIP(m.NextHop), IPFromProtoIP(m.Source),
                    m.LocalPref, m.Med, m.BgpIdentifier, m.OriginatorId,
                    <<>>, m.Ebgp, FALSE, Uint8(m.Origin)),
     ASPath |-> ASPathFromProtoASPath(m.AsPath),
     ClusterList |-> <<>>,
     Communities |-> <<>>,
     LargeCommunities |-> <<>>,
     UnknownAttributes |-> <<>>,
     PathIdentifier |-> m.PathIdentifier,
     ASPathLen |-> 0]

\* BGPPathFromProtoBGPPath: the cache, the heap and the path it returns.
BGPPathFromProtoBGPPath(c, h, m) ==
    LET r  == BGPPath(h, pathLiteralFromProto(m))
        d  == Dedup(c, r.h, r.p)
        h1 == Alloc(r.h, "u32s", m.Communities)
        h2 == Alloc(h1, "lcs",
                    [i \in 1..Len(m.LargeCommunities) |->
                        LargeCommunityFromProtoCommunity(m.LargeCommunities[i])])
        h3 == Alloc(h2, "unk",
                    [i \in 1..Len(m.UnknownAttributes) |->
                        UnknownPathAttributeFromProtoUnknownPathAttribute(
                            m.UnknownAttributes[i])])
        h4 == Alloc(h3, "u32s", m.ClusterList)
    IN  [cache |-> d.cache,
         h |-> h4,
         p |-> [d.p EXCEPT !.Communities = Len(h1.u32s),
                           !.LargeCommunities = Len(h2.lcs),
                           !.UnknownAttributes = Len(h3.unk),
                           !.ClusterList = Len(h4.u32s)]]

-----------------------------------------------------------------------------
(* Inputs                                                                  *)

MaxClusterLen == 1

LocalPrefs == {100, 200}
ASPathLens == {1, 2}
Origins == {0, 1}
MEDs == {0, 1}
BGPIdentifiers == {10, 20}
OriginatorIDs == {0, 5}
\* Source and NextHop together: the sources differ, or only the next hops
\* do (in the direction opposite to the sources of the first two).
Addresses == { <<IPv4(1), IPv4(2)>>, <<IPv6(1, 1), IPv4(1)>>,
               <<IPv4(1), IPv4(1)>> }

\* One SEQUENCE segment of n AS numbers.
SeqPath(n) == <<[Type |-> ASSequence, ASNs |-> [i \in 1..n |-> 65000 + i]]>>

\* The paths the decision process is run on: every combination of the
\* attributes Select and ECMP read, the AS path agreeing with ASPathLen, the
\* cluster list empty or of MaxClusterLen entries.
DecisionPaths ==
    { [A |-> BGPPathA(ad[2], ad[1], lp, med, id, oid, <<>>, ebgp, FALSE, org),
       ASPath |-> SeqPath(n),
       ClusterList |-> <<[i \in 1..cl |-> i]>>,
       Communities |-> <<(<<>>)>>,
       LargeCommunities |-> <<(<<>>)>>,
       UnknownAttributes |-> <<(<<>>)>>,
       PathIdentifier |-> 0,
       ASPathLen |-> n] :
        ad \in Addresses, lp \in LocalPrefs, med \in MEDs,
        id \in BGPIdentifiers, oid \in OriginatorIDs, ebgp \in BOOLEAN,
        org \in Origins, n \in ASPathLens, cl \in {0, MaxClusterLen} }

PathIdentifiers == {0, 1}

\* Paths whose cluster list is absent (a nil pointer), empty or of
\* MaxClusterLen entries, for Select and Equal: they differ in LocalPref, BGP
\* identifier, addresses and path identifier.
OptionalClusterListPaths ==
    { [A |-> BGPPathA(ad[2], ad[1], lp, 0, id, 0, <<>>, FALSE, FALSE, 0),
       ASPath |-> SeqPath(1),
       ClusterList |-> cl,
       Communities |-> <<(<<>>)>>,
       LargeCommunities |-> <<(<<>>)>>,
       UnknownAttributes |-> <<(<<>>)>>,
       PathIdentifier |-> pid,
       ASPathLen |-> 1] :
        ad \in Addresses, lp \in LocalPrefs, id \in BGPIdentifiers,
        pid \in PathIdentifiers,
        cl \in {<<>>, <<(<<>>)>>, <<[i \in 1..MaxClusterLen |-> i]>>} }

MaxTimes == 2
MaxSteps == 2
MaxIndex == 2

Min(a, b) == IF a < b THEN a ELSE b

\* The AS numbers prepended and the values written by the mutations.
PrependASNs == {64512}
WrittenValues == {64999}

\* AS paths: empty, one SEQUENCE, a leading SET, one SEQUENCE holding the
\* maximum of AS numbers, and the maximum number of segments.
SmallASPaths ==
    { <<>>,
      SeqPath(2),
      <<[Type |-> ASSet, ASNs |-> <<65010, 65011>>],
        [Type |-> ASSequence, ASNs |-> <<65020>>]>> }
LargeASPaths ==
    { SeqPath(MaxASNsSegment),
      [i \in 1..MaxASNsSegment |->
          [Type |-> ASSequence, ASNs |-> <<65000 + i>>]] }

LargeCommunity(ga, d1, d2) ==
    [GlobalAdministrator |-> ga, DataPart1 |-> d1, DataPart2 |-> d2]

PathA(oid) ==
    BGPPathA(IPv4(2), IPv4(1), 100, 0, 10, oid, <<>>, FALSE, FALSE, 0)

\* Well-formed paths (ASPathLen agrees with the AS path) for Prepend, Copy
\* and Length: the small AS paths with every combination of the optional
\* sequences, the large ones with empty sequences.
PathInputs ==
    { [A |-> PathA(oid),
       ASPath |-> pa,
       ClusterList |-> cl,
       Communities |-> <<co>>,
       LargeCommunities |-> <<lc>>,
       UnknownAttributes |-> <<(<<>>)>>,
       PathIdentifier |-> 1,
       ASPathLen |-> ASPathLength(pa)] :
        oid \in OriginatorIDs, pa \in SmallASPaths,
        cl \in {<<>>, <<(<<>>)>>, <<[i \in 1..MaxClusterLen |-> i]>>},
        co \in {<<>>, <<131073>>},
        lc \in {<<>>, <<LargeCommunity(1, 2, 3)>>} }
    \cup
    { [A |-> PathA(0),
       ASPath |-> pa,
       ClusterList |-> <<(<<>>)>>,
       Communities |-> <<(<<>>)>>,
       LargeCommunities |-> <<(<<>>)>>,
       UnknownAttributes |-> <<(<<>>)>>,
       PathIdentifier |-> 1,
       ASPathLen |-> ASPathLength(pa)] : pa \in LargeASPaths }

NoRes == [op |-> "none", int |-> 0, bool |-> FALSE, args |-> <<>>]

-----------------------------------------------------------------------------
(* Specification of the decision process: two paths b and c, compared      *)

InitDecision ==
    /\ \E db \in DecisionPaths :
          LET rb == BGPPath(EmptyHeap, db)
          IN  /\ heap = rb.h
              /\ paths = [b |-> rb.p]
    /\ cache = <<>>
    /\ cacheMu = 0
    /\ procs = <<>>
    /\ returned = {}
    /\ pb = <<>>
    /\ res = NoRes
    /\ snap = <<>>
    /\ steps = 0
    /\ pc = "ready"

\* c := &BGPPath{...}; res := b.Select(c)
CallSelect ==
    /\ pc = "ready"
    /\ \E dc \in DecisionPaths :
          LET rc == BGPPath(heap, dc)
          IN  /\ heap' = rc.h
              /\ paths' = [b |-> paths.b, c |-> rc.p]
              /\ res' = [op |-> "Select", bool |-> FALSE, args |-> <<>>,
                         int |-> Select(rc.h, paths.b, rc.p)]
    /\ pc' = "done"
    /\ UNCHANGED <<cacheVars, pb, snap, steps>>

\* c := &BGPPath{...}; res := b.ECMP(c)
CallECMP ==
    /\ pc = "ready"
    /\ \E dc \in DecisionPaths :
          LET rc == BGPPath(heap, dc)
          IN  /\ heap' = rc.h
              /\ paths' = [b |-> paths.b, c |-> rc.p]
              /\ res' = [op |-> "ECMP", int |-> 0, args |-> <<>>,
                         bool |-> ECMP(rc.h, paths.b, rc.p)]
    /\ pc' = "done"
    /\ UNCHANGED <<cacheVars, pb, snap, steps>>

Next == CallSelect \/ CallECMP

Spec == InitDecision /\ [][Next]_vars

-----------------------------------------------------------------------------
(* Specification of a path and its copy: p is prepended to and measured,   *)
(* then copied to c, and c is mutated                                      *)

InitPath ==
    /\ \E d \in PathInputs :
          LET r == BGPPath(EmptyHeap, d)
          IN  /\ heap = r.h
              /\ paths = [p |-> r.p]
    /\ cache = <<>>
    /\ cacheMu = 0
    /\ procs = <<>>
    /\ returned = {}
    /\ pb = <<>>
    /\ res = NoRes
    /\ snap = <<>>
    /\ steps = 0
    /\ pc = "ready"

\* The path the caller works on: p until it is copied, its copy c after.
Target == IF pc = "ready" THEN "p" ELSE "c"

\* x.Prepend(asn, times)
CallPrepend ==
    /\ pc \in {"ready", "copied"}
    /\ steps < MaxSteps
    /\ \E asn \in PrependASNs, times \in 0..MaxTimes :
          LET r == Prepend(heap, paths[Target], asn, times)
          IN  /\ heap' = r.h
              /\ paths' = [paths EXCEPT ![Target] = r.p]
              /\ res' = [op |-> "Prepend", int |-> 0, bool |-> FALSE,
                         args |-> <<Target, asn, times>>]
    /\ steps' = steps + 1
    /\ UNCHANGED <<cacheVars, pb, snap, pc>>

\* res := x.Length()
CallLength ==
    /\ pc \in {"ready", "copied"}
    /\ res' = [op |-> "Length", int |-> Length(heap, paths[Target]),
               bool |-> FALSE, args |-> <<Target>>]
    /\ UNCHANGED <<heap, paths, cacheVars, pb, snap, steps, pc>>

\* c := p.Copy()
CallCopy ==
    /\ pc = "ready"
    /\ LET r == Copy(heap, paths.p)
       IN  /\ heap' = r.h
           /\ paths' = [p |-> paths.p, c |-> r.p]
           /\ snap' = <<PathValue(r.h, paths.p)>>
    /\ res' = [op |-> "Copy", int |-> 0, bool |-> FALSE, args |-> <<>>]
    /\ pc' = "copied"
    /\ UNCHANGED <<cacheVars, pb, steps>>

\* (*c.ASPath)[i].ASNs[j] = v
WriteASN ==
    /\ pc = "copied"
    /\ steps < MaxSteps
    /\ \E i \in 1..Min(Len(heap.segs[paths.c.ASPath]), MaxIndex) :
          /\ heap.segs[paths.c.ASPath][i].ASNs # Nil
          /\ \E j \in 1..Min(Len(heap.asns[heap.segs[paths.c.ASPath][i].ASNs]),
                             MaxIndex), v \in WrittenValues :
                /\ heap' = Store(heap, "asns",
                                 heap.segs[paths.c.ASPath][i].ASNs, j, v)
                /\ res' = [op |-> "WriteASN", int |-> 0, bool |-> FALSE,
                           args |-> <<i, j>>]
    /\ steps' = steps + 1
    /\ UNCHANGED <<paths, cacheVars, pb, snap, pc>>

\* (*c.ASPath)[i] = types.ASPathSegment{Type: types.ASSequence, ASNs: []uint32{v}}
ReplaceSegment ==
    /\ pc = "copied"
    /\ steps < MaxSteps
    /\ \E i \in 1..Min(Len(heap.segs[paths.c.ASPath]), MaxIndex),
          v \in WrittenValues :
          LET h1 == Alloc(heap, "asns", <<v>>)
          IN  /\ heap' = Store(h1, "segs", paths.c.ASPath, i,
                               [Type |-> ASSequence, ASNs |-> Len(h1.asns)])
              /\ res' = [op |-> "ReplaceSegment", int |-> 0, bool |-> FALSE,
                         args |-> <<i>>]
    /\ steps' = steps + 1
    /\ UNCHANGED <<paths, cacheVars, pb, snap, pc>>

\* pa := append(*c.ASPath, types.ASPathSegment{...}); c.ASPath = &pa
AddSegment ==
    /\ pc = "copied"
    /\ steps < MaxSteps
    /\ \E v \in WrittenValues :
          LET h1 == Alloc(heap, "asns", <<v>>)
              h2 == Alloc(h1, "segs",
                          Append(heap.segs[paths.c.ASPath],
                                 [Type |-> ASSequence, ASNs |-> Len(h1.asns)]))
          IN  /\ heap' = h2
              /\ paths' = [paths EXCEPT !.c.ASPath = Len(h2.segs)]
    /\ res' = [op |-> "AddSegment", int |-> 0, bool |-> FALSE, args |-> <<>>]
    /\ steps' = steps + 1
    /\ UNCHANGED <<cacheVars, pb, snap, pc>>

\* (*c.Communities)[j] = v
WriteCommunity ==
    /\ pc = "copied"
    /\ steps < MaxSteps
    /\ paths.c.Communities # Nil
    /\ \E j \in 1..Min(Len(heap.u32s[paths.c.Communities]), MaxIndex),
          v \in WrittenValues :
          /\ heap' = Store(heap, "u32s", paths.c.Communities, j, v)
          /\ res' = [op |-> "WriteCommunity", int |-> 0, bool |-> FALSE,
                     args |-> <<j>>]
    /\ steps' = steps + 1
    /\ UNCHANGED <<paths, cacheVars, pb, snap, pc>>

\* (*c.LargeCommunities)[j] = v
WriteLargeCommunity ==
    /\ pc = "copied"
    /\ steps < MaxSteps
    /\ paths.c.LargeCommunities # Nil
    /\ \E j \in 1..Min(Len(heap.lcs[paths.c.LargeCommunities]), MaxIndex),
          v \in WrittenValues :
          /\ heap' = Store(heap, "lcs", paths.c.LargeCommunities, j,
                           LargeCommunity(v, 0, 0))
          /\ res' = [op |-> "WriteLargeCommunity", int |-> 0, bool |-> FALSE,
                     args |-> <<j>>]
    /\ steps' = steps + 1
    /\ UNCHANGED <<paths, cacheVars, pb, snap, pc>>

\* (*c.ClusterList)[j] = v
WriteClusterID ==
    /\ pc = "copied"
    /\ steps < MaxSteps
    /\ paths.c.ClusterList # Nil
    /\ \E j \in 1..Min(Len(heap.u32s[paths.c.ClusterList]), MaxIndex),
          v \in WrittenValues :
          /\ heap' = Store(heap, "u32s", paths.c.ClusterList, j, v)
          /\ res' = [op |-> "WriteClusterID", int |-> 0, bool |-> FALSE,
                     args |-> <<j>>]
    /\ steps' = steps + 1
    /\ UNCHANGED <<paths, cacheVars, pb, snap, pc>>

NextPath ==
    \/ CallPrepend
    \/ CallLength
    \/ CallCopy
    \/ WriteASN
    \/ ReplaceSegment
    \/ AddSegment
    \/ WriteCommunity
    \/ WriteLargeCommunity
    \/ WriteClusterID

SpecPath == InitPath /\ [][NextPath]_vars

-----------------------------------------------------------------------------
(* Specification of the cache: goroutines deduplicate BGPPathA candidates  *)

NumGoroutines == 2
MaxCalls == 3

Goroutines == 1..NumGoroutines

\* The BGPPathA values the goroutines build; the last two differ only in
\* the AtomicAggregate flag.
CacheValues ==
    { BGPPathA(IPv4(2), IPv4(1), 100, 0, 10, 0, <<>>, FALSE, FALSE, 0),
      BGPPathA(IPv4(2), IPv4(1), 100, 0, 10, 0, <<>>, FALSE, TRUE, 0) }

InitCache ==
    /\ heap = EmptyHeap
    /\ paths = <<>>
    /\ cache = <<>>
    /\ cacheMu = 0
    /\ procs = [g \in Goroutines |-> [pc |-> "idle", b |-> Nil, ret |-> Nil]]
    /\ returned = {}
    /\ pb = <<>>
    /\ res = NoRes
    /\ snap = <<>>
    /\ steps = 0
    /\ pc = "ready"

\* b := &BGPPathA{...}; b.Dedup() is entered
NewCandidate(g) ==
    /\ procs[g].pc = "idle"
    /\ steps < MaxCalls
    /\ \E v \in CacheValues :
          /\ heap' = Alloc(heap, "attrs", v)
          /\ procs' = [procs EXCEPT ![g] =
                [pc |-> "lock", b |-> Len(heap.attrs) + 1, ret |-> Nil]]
    /\ steps' = steps + 1
    /\ UNCHANGED <<paths, cache, cacheMu, returned, pb, res, snap, pc>>

\* x.Dedup() is entered for an instance x that an earlier call returned
AgainCandidate(g) ==
    /\ procs[g].pc = "idle"
    /\ steps < MaxCalls
    /\ \E r \in returned :
          procs' = [procs EXCEPT ![g] =
                [pc |-> "lock", b |-> r.ret, ret |-> Nil]]
    /\ steps' = steps + 1
    /\ UNCHANGED <<heap, paths, cache, cacheMu, returned, pb, res, snap, pc>>

\* bgpc.cacheMu.Lock()
Lock(g) ==
    /\ procs[g].pc = "lock"
    /\ cacheMu = 0
    /\ cacheMu' = g
    /\ procs' = [procs EXCEPT ![g].pc = "locked"]
    /\ UNCHANGED <<heap, paths, cache, returned, pb, res, snap, steps, pc>>

\* the lookup in, and the insertion into, bgpc.cache
Lookup(g) ==
    /\ procs[g].pc = "locked"
    /\ cache' = DedupA(cache, heap, procs[g].b).cache
    /\ procs' = [procs EXCEPT
                    ![g].pc = "unlock",
                    ![g].ret = DedupA(cache, heap, procs[g].b).ret]
    /\ UNCHANGED <<heap, paths, cacheMu, returned, pb, res, snap, steps, pc>>

\* bgpc.cacheMu.Unlock(); Dedup returns
Unlock(g) ==
    /\ procs[g].pc = "unlock"
    /\ cacheMu' = 0
    /\ returned' = returned \cup
                     {[g |-> g, b |-> procs[g].b, ret |-> procs[g].ret]}
    /\ procs' = [procs EXCEPT ![g].pc = "idle"]
    /\ UNCHANGED <<heap, paths, cache, pb, res, snap, steps, pc>>

NextCache ==
    \E g \in Goroutines :
        \/ NewCandidate(g)
        \/ AgainCandidate(g)
        \/ Lock(g)
        \/ Lookup(g)
        \/ Unlock(g)

SpecCache == InitCache /\ [][NextCache]_vars

-----------------------------------------------------------------------------
(* Specification of the round trip: p is converted to its protobuf form,   *)
(* the form is converted to a path q, and p is compared with q             *)

ProtoAddresses == {IPv4(1), IPv6(1, 2)}

\* Well-formed paths: no nil pointer, ASPathLen agreeing with the AS path.
\* p has been through Dedup, as every path is before it is used.
ProtoPaths ==
    { [A |-> BGPPathA(nh, IPv4(1), 100, 0, 10, oid, <<>>, ebgp, FALSE, org),
       ASPath |-> pa,
       ClusterList |-> <<cl>>,
       Communities |-> <<co>>,
       LargeCommunities |-> <<lc>>,
       UnknownAttributes |-> <<(<<>>)>>,
       PathIdentifier |-> 1,
       ASPathLen |-> ASPathLength(pa)] :
        nh \in ProtoAddresses, oid \in OriginatorIDs, ebgp \in BOOLEAN,
        org \in {0, 2}, pa \in SmallASPaths,
        cl \in {<<>>, [i \in 1..MaxClusterLen |-> i]},
        co \in {<<>>, <<131073>>},
        lc \in {<<>>, <<LargeCommunity(1, 2, 3)>>} }

InitProto ==
    /\ \E d \in ProtoPaths :
          LET r  == BGPPath(EmptyHeap, d)
              dd == Dedup(<<>>, r.h, r.p)
          IN  /\ heap = r.h
              /\ paths = [p |-> dd.p]
              /\ cache = dd.cache
    /\ cacheMu = 0
    /\ procs = <<>>
    /\ returned = {}
    /\ pb = <<>>
    /\ res = NoRes
    /\ snap = <<>>
    /\ steps = 0
    /\ pc = "ready"

\* pb := p.ToProto()
CallToProto ==
    /\ pc = "ready"
    /\ pb' = <<ToProto(heap, paths.p)>>
    /\ res' = [op |-> "ToProto", int |-> 0, bool |-> FALSE, args |-> <<>>]
    /\ pc' = "encoded"
    /\ UNCHANGED <<heap, paths, cacheVars, snap, steps>>

\* q := BGPPathFromProtoBGPPath(pb)
CallFromProto ==
    /\ pc = "encoded"
    /\ LET r == BGPPathFromProtoBGPPath(cache, heap, pb[1])
       IN  /\ heap' = r.h
           /\ cache' = r.cache
           /\ paths' = [p |-> paths.p, q |-> r.p]
    /\ res' = [op |-> "FromProto", int |-> 0, bool |-> FALSE, args |-> <<>>]
    /\ pc' = "decoded"
    /\ UNCHANGED <<cacheMu, procs, returned, pb, snap, steps>>

\* res := p.Equal(q)
CallEqual ==
    /\ pc = "decoded"
    /\ res' = [op |-> "Equal", int |-> 0, args |-> <<>>,
               bool |-> Equal(heap, paths.p, paths.q)]
    /\ pc' = "done"
    /\ UNCHANGED <<heap, paths, cacheVars, pb, snap, steps>>

NextProto == CallToProto \/ CallFromProto \/ CallEqual

SpecProto == InitProto /\ [][NextProto]_vars

-----------------------------------------------------------------------------
(* Specification of comparisons of paths whose cluster list may be absent  *)

InitOptional ==
    /\ \E db \in OptionalClusterListPaths :
          LET rb == BGPPath(EmptyHeap, db)
          IN  /\ heap = rb.h
              /\ paths = [b |-> rb.p]
    /\ cache = <<>>
    /\ cacheMu = 0
    /\ procs = <<>>
    /\ returned = {}
    /\ pb = <<>>
    /\ res = NoRes
    /\ snap = <<>>
    /\ steps = 0
    /\ pc = "ready"

\* c := &BGPPath{...}; res := b.Select(c), which returns or panics
CallSelectOptional ==
    /\ pc = "ready"
    /\ \E dc \in OptionalClusterListPaths :
          LET rc == BGPPath(heap, dc)
          IN  /\ heap' = rc.h
              /\ paths' = [b |-> paths.b, c |-> rc.p]
              /\ IF SelectPanics(rc.h, paths.b, rc.p)
                 THEN /\ res' = [op |-> "Select", int |-> 0, bool |-> FALSE,
                                 args |-> <<>>]
                      /\ pc' = "panicked"
                 ELSE /\ res' = [op |-> "Select", bool |-> FALSE, args |-> <<>>,
                                 int |-> Select(rc.h, paths.b, rc.p)]
                      /\ pc' = "done"
    /\ UNCHANGED <<cacheVars, pb, snap, steps>>

\* c := &BGPPath{...}; res := b.Equal(c), which returns or panics
CallEqualOptional ==
    /\ pc = "ready"
    /\ \E dc \in OptionalClusterListPaths :
          LET rc == BGPPath(heap, dc)
          IN  /\ heap' = rc.h
              /\ paths' = [b |-> paths.b, c |-> rc.p]
              /\ IF EqualPanics(rc.h, paths.b, rc.p)
                 THEN /\ res' = [op |-> "Equal", int |-> 0, bool |-> FALSE,
                                 args |-> <<>>]
                      /\ pc' = "panicked"
                 ELSE /\ res' = [op |-> "Equal", int |-> 0, args |-> <<>>,
                                 bool |-> Equal(rc.h, paths.b, rc.p)]
                      /\ pc' = "done"
    /\ UNCHANGED <<cacheVars, pb, snap, steps>>

NextOptional == CallSelectOptional \/ CallEqualOptional

SpecOptional == InitOptional /\ [][NextOptional]_vars

-----------------------------------------------------------------------------
(* Properties of the decision process                                      *)

\* b and c agree on LocalPref, ASPathLen, Origin, MED and EBGP.
TieOnFive ==
    /\ heap.attrs[paths.b.BGPPathA].LocalPref = heap.attrs[paths.c.BGPPathA].LocalPref
    /\ paths.b.ASPathLen = paths.c.ASPathLen
    /\ heap.attrs[paths.b.BGPPathA].Origin = heap.attrs[paths.c.BGPPathA].Origin
    /\ heap.attrs[paths.b.BGPPathA].MED = heap.attrs[paths.c.BGPPathA].MED
    /\ heap.attrs[paths.b.BGPPathA].EBGP = heap.attrs[paths.c.BGPPathA].EBGP

\* b and c have the same effective BGP identifier.
TieOnIdentifier ==
    bgpIdentifier(heap.attrs[paths.b.BGPPathA]) =
        bgpIdentifier(heap.attrs[paths.c.BGPPathA])

\* C1: the sign of b.Select(c) is decided by the first of LocalPref (higher
\* wins), ASPathLen (smaller wins), Origin (lower wins), MED (lower wins) and
\* EBGP (the eBGP path wins) on which b and c differ, whatever the later
\* fields are; positive means b wins, negative means c wins.
SelectDecidedByFirstDifference ==
    res.op = "Select" =>
        LET b  == paths.b
            c  == paths.c
            bA == heap.attrs[b.BGPPathA]
            cA == heap.attrs[c.BGPPathA]
            bWins == res.int > 0
            cWins == res.int < 0
        IN  IF bA.LocalPref # cA.LocalPref
            THEN IF bA.LocalPref > cA.LocalPref THEN bWins ELSE cWins
            ELSE IF b.ASPathLen # c.ASPathLen
            THEN IF b.ASPathLen < c.ASPathLen THEN bWins ELSE cWins
            ELSE IF bA.Origin # cA.Origin
            THEN IF bA.Origin < cA.Origin THEN bWins ELSE cWins
            ELSE IF bA.MED # cA.MED
            THEN IF bA.MED < cA.MED THEN bWins ELSE cWins
            ELSE IF bA.EBGP # cA.EBGP
            THEN IF bA.EBGP THEN bWins ELSE cWins
            ELSE TRUE

\* Select has run on paths that differ first on the origin, c having the
\* better origin and b the better MED, the eBGP flag and every later field
\* differing too.
SelectDecidedByOriginReached ==
    /\ res.op = "Select"
    /\ heap.attrs[paths.b.BGPPathA].LocalPref = heap.attrs[paths.c.BGPPathA].LocalPref
    /\ paths.b.ASPathLen = paths.c.ASPathLen
    /\ heap.attrs[paths.b.BGPPathA].Origin > heap.attrs[paths.c.BGPPathA].Origin
    /\ heap.attrs[paths.b.BGPPathA].MED < heap.attrs[paths.c.BGPPathA].MED
    /\ heap.attrs[paths.b.BGPPathA].EBGP /\ ~heap.attrs[paths.c.BGPPathA].EBGP
    /\ ~TieOnIdentifier
    /\ heap.attrs[paths.b.BGPPathA].Source # heap.attrs[paths.c.BGPPathA].Source
    /\ res.int < 0

\* C2: when b and c tie on the first five criteria, Select picks the path
\* with the lower effective BGP identifier (OriginatorID if non-zero, else
\* BGPIdentifier): for X = (BGPIdentifier 10, OriginatorID 0) and
\* Y = (20, 5), X.Select(Y) is negative and Y.Select(X) positive.
SelectLowerIdentifierWins ==
    (res.op = "Select" /\ TieOnFive) =>
        LET idB == bgpIdentifier(heap.attrs[paths.b.BGPPathA])
            idC == bgpIdentifier(heap.attrs[paths.c.BGPPathA])
        IN  /\ idB < idC => res.int > 0
            /\ idC < idB => res.int < 0

\* C3: when b and c tie on criteria 1-6, Select picks the path with the
\* shorter cluster list, then the one with the lower Source, then the one
\* with the lower NextHop, and returns 0 only when all of these tie.
SelectShorterClusterListLowerAddressWins ==
    (res.op = "Select" /\ TieOnFive /\ TieOnIdentifier) =>
        LET bA  == heap.attrs[paths.b.BGPPathA]
            cA  == heap.attrs[paths.c.BGPPathA]
            clB == Len(heap.u32s[paths.b.ClusterList])
            clC == Len(heap.u32s[paths.c.ClusterList])
            bWins == res.int > 0
            cWins == res.int < 0
        IN  IF clB # clC THEN (IF clB < clC THEN bWins ELSE cWins)
            ELSE IF Compare(bA.Source, cA.Source) # 0
            THEN IF Compare(bA.Source, cA.Source) = -1 THEN bWins ELSE cWins
            ELSE IF Compare(bA.NextHop, cA.NextHop) # 0
            THEN IF Compare(bA.NextHop, cA.NextHop) = -1 THEN bWins ELSE cWins
            ELSE res.int = 0

ECMPIffFourEqual ==
    res.op = "ECMP" =>
        (res.bool <=>
            /\ heap.attrs[paths.b.BGPPathA].LocalPref = heap.attrs[paths.c.BGPPathA].LocalPref
            /\ paths.b.ASPathLen = paths.c.ASPathLen
            /\ heap.attrs[paths.b.BGPPathA].Origin = heap.attrs[paths.c.BGPPathA].Origin
            /\ heap.attrs[paths.b.BGPPathA].MED = heap.attrs[paths.c.BGPPathA].MED)

\* ECMP has returned true for two paths that differ in the eBGP flag, BGP
\* identifier, originator ID, cluster list length, source and next hop.
ECMPTrueDespiteOtherFieldsReached ==
    /\ res.op = "ECMP"
    /\ res.bool
    /\ heap.attrs[paths.b.BGPPathA].EBGP # heap.attrs[paths.c.BGPPathA].EBGP
    /\ heap.attrs[paths.b.BGPPathA].BGPIdentifier # heap.attrs[paths.c.BGPPathA].BGPIdentifier
    /\ heap.attrs[paths.b.BGPPathA].OriginatorID # heap.attrs[paths.c.BGPPathA].OriginatorID
    /\ Len(heap.u32s[paths.b.ClusterList]) # Len(heap.u32s[paths.c.ClusterList])
    /\ heap.attrs[paths.b.BGPPathA].Source # heap.attrs[paths.c.BGPPathA].Source
    /\ heap.attrs[paths.b.BGPPathA].NextHop # heap.attrs[paths.c.BGPPathA].NextHop

\* The length of the cluster list of x, an absent list counting as empty.
ClusterListLenOrZero(x) ==
    IF x.ClusterList = Nil THEN 0 ELSE Len(heap.u32s[x.ClusterList])

\* b and c have the same Source and the same NextHop.
TieOnAddresses ==
    /\ Compare(heap.attrs[paths.c.BGPPathA].Source,
               heap.attrs[paths.b.BGPPathA].Source) = 0
    /\ Compare(heap.attrs[paths.c.BGPPathA].NextHop,
               heap.attrs[paths.b.BGPPathA].NextHop) = 0

\* C12: when b or c has no cluster list, b.Select(c) and b.Equal(c) do not
\* panic, and on a tie of the steps before the cluster lists the absent list
\* counts as one of length 0: a difference of the lengths decides Select (and
\* makes Equal false), and against an empty or absent list the comparison
\* goes on to the addresses.
SelectTotalOnAbsentClusterList ==
    (/\ res.op \in {"Select", "Equal"}
     /\ (paths.b.ClusterList = Nil \/ paths.c.ClusterList = Nil)) =>
        /\ pc # "panicked"
        /\ (TieOnFive /\ TieOnIdentifier) =>
              LET lb == ClusterListLenOrZero(paths.b)
                  lc == ClusterListLenOrZero(paths.c)
              IN  /\ res.op = "Select" =>
                        /\ lc < lb => res.int = 1
                        /\ lc > lb => res.int = -1
                        /\ lc = lb => (res.int = 0 <=> TieOnAddresses)
                  /\ res.op = "Equal" =>
                        (res.bool <=> /\ paths.b.PathIdentifier = paths.c.PathIdentifier
                                      /\ lc = lb
                                      /\ TieOnAddresses)

-----------------------------------------------------------------------------
(* Properties of Copy, Prepend and Length                                  *)

\* C7: after c = p.Copy(), c references the BGPPathA instance of p, and no
\* later mutation made through c (an AS number overwritten inside a segment,
\* a segment replaced or added, c.Prepend, an element of the communities,
\* large communities or cluster list overwritten) changes the AS path,
\* ASPathLen, communities, large communities or cluster list of p.
CopyIsIndependent ==
    pc = "copied" =>
        /\ paths.c.BGPPathA = paths.p.BGPPathA
        /\ PathValue(heap, paths.p) = snap[1]

\* C9: Prepend(asn, times) changes nothing when times is 0; when times >= 1
\* (below the maximum segment length) the AS path then starts with a
\* SEQUENCE, its AS numbers are times copies of asn followed by the previous
\* ones in their order, a previously leading SET is kept behind the new
\* SEQUENCE, and ASPathLen is the length recomputed from the new AS path;
\* an empty AS path becomes one SEQUENCE of times copies, ASPathLen = times.
PrependPrependsTimesCopies ==
    [][res'.op = "Prepend" =>
        LET who   == res'.args[1]
            asn   == res'.args[2]
            times == res'.args[3]
            old   == ASPathValue(heap, paths[who].ASPath)
            new   == ASPathValue(heap', paths'[who].ASPath)
            copies == [i \in 1..times |-> asn]
        IN  /\ times = 0 => (heap' = heap /\ paths' = paths)
            /\ (times >= 1 /\ times < MaxASNsSegment) =>
                  /\ new[1].Type = ASSequence
                  /\ Flatten(new) = copies \o Flatten(old)
                  /\ (old # <<>> /\ old[1].Type = ASSet) =>
                        (new[1].ASNs = copies /\ new[2] = old[1])
                  /\ paths'[who].ASPathLen = ASPathLength(new)
                  /\ old = <<>> =>
                        /\ new = <<[Type |-> ASSequence, ASNs |-> copies]>>
                        /\ paths'[who].ASPathLen = times
    ]_vars

\* Prepend has put two copies of the AS number in a new SEQUENCE in front of
\* a SET, and ASPathLen counts them and the SET.
PrependBeforeSetReached ==
    /\ res.op = "Prepend"
    /\ res.args[3] = 2
    /\ LET pa == ASPathValue(heap, paths[res.args[1]].ASPath)
       IN  /\ Len(pa) >= 2
           /\ pa[1] = [Type |-> ASSequence, ASNs |-> <<res.args[2], res.args[2]>>]
           /\ pa[2].Type = ASSet
           /\ paths[res.args[1]].ASPathLen = 2 + 1 + Len(Flatten(SubSeq(pa, 3, Len(pa))))

\* Every segment of the AS path pa holds at most MaxASNsSegment AS numbers.
SegmentsWithinMaximum(pa) ==
    \A i \in 1..Len(pa) : Len(pa[i].ASNs) <= MaxASNsSegment

\* C11: for every path whose segments all hold at most MaxASNsSegment AS
\* numbers and every asn and times, after Prepend(asn, times) every segment
\* of the path still holds at most MaxASNsSegment AS numbers.
PrependKeepsSegmentsWithinMaximum ==
    [][(/\ res'.op = "Prepend"
        /\ SegmentsWithinMaximum(ASPathValue(heap, paths[res'.args[1]].ASPath)))
        => SegmentsWithinMaximum(ASPathValue(heap', paths'[res'.args[1]].ASPath))
    ]_vars

\* The path x has no communities, large communities, cluster IDs or unknown
\* attributes, no originator ID, and an AS path of one SEQUENCE segment.
PlainOneSequence(x) ==
    /\ x.Communities # Nil /\ heap.u32s[x.Communities] = <<>>
    /\ x.LargeCommunities # Nil /\ heap.lcs[x.LargeCommunities] = <<>>
    /\ x.ClusterList # Nil /\ heap.u32s[x.ClusterList] = <<>>
    /\ x.UnknownAttributes # Nil /\ heap.unk[x.UnknownAttributes] = <<>>
    /\ heap.attrs[x.BGPPathA].OriginatorID = 0
    /\ Len(heap.segs[x.ASPath]) = 1
    /\ heap.segs[x.ASPath][1].Type = ASSequence

\* C10: for a path with empty communities, large communities and cluster
\* list, no unknown attributes, OriginatorID 0 and an AS path of one
\* SEQUENCE of n AS numbers, Length() = 4*7 + 4 + (3 + 4*n).
LengthOfOneSequence ==
    (res.op = "Length" /\ PlainOneSequence(paths[res.args[1]])) =>
        res.int = 4 * 7 + 4
                  + (3 + 4 * Len(Flatten(ASPathValue(heap, paths[res.args[1]].ASPath))))

\* C10, amended: for such a path Length() = 4*7 + 4 + (3 + 1 + 4*n) in
\* uint16 arithmetic, the segment adding one octet; 44 for n = 2.
LengthOfOneSequenceCountsSegment ==
    (res.op = "Length" /\ PlainOneSequence(paths[res.args[1]])) =>
        res.int = Uint16(4 * 7 + 4
                  + (3 + 1 + 4 * Len(Flatten(ASPathValue(heap, paths[res.args[1]].ASPath)))))

\* Length has returned 44 for such a path with two AS numbers.
LengthOfTwoASNsReached ==
    /\ res.op = "Length"
    /\ PlainOneSequence(paths[res.args[1]])
    /\ Len(heap.asns[heap.segs[paths[res.args[1]].ASPath][1].ASNs]) = 2
    /\ res.int = 44

\* The octets the claim gives a list of n entries of w octets each: a header
\* of 3 and the entries when there is an entry, nothing otherwise.
ListContribution(n, w) == IF n >= 1 THEN 3 + w * n ELSE 0

\* C13: Length() is the sum (in uint16) of the fixed 4*7 + 4 octets, the
\* originator ID, the AS path, the unknown attributes and, for each of the
\* communities, large communities and cluster list, 3 + w*n octets when the
\* list holds n >= 1 entries (w = 4, 12 and 4) and 0 when it is empty or
\* absent; so a cluster list of k >= 1 IDs adds 3 + 4*k to the length.
LengthCountsEachList ==
    res.op = "Length" =>
        LET x == paths[res.args[1]]
            communities == IF x.Communities = Nil THEN 0
                           ELSE Len(heap.u32s[x.Communities])
            largeCommunities == IF x.LargeCommunities = Nil THEN 0
                                ELSE Len(heap.lcs[x.LargeCommunities])
            clusterList == IF x.ClusterList = Nil THEN 0
                           ELSE Len(heap.u32s[x.ClusterList])
            unknown == IF x.UnknownAttributes = Nil THEN 0
                       ELSE unknownAttributesLen(heap.unk[x.UnknownAttributes])
            originatorID == IF heap.attrs[x.BGPPathA].OriginatorID # 0
                            THEN 4 ELSE 0
        IN  res.int = Uint16(4 * 7 + 4 + originatorID
                             + asPathLen(heap, heap.segs[x.ASPath]) + unknown
                             + ListContribution(communities, 4)
                             + ListContribution(largeCommunities, 12)
                             + ListContribution(clusterList, 4))

-----------------------------------------------------------------------------
(* Properties of the cache and of the round trip                           *)

\* C5: under any interleaving of Dedup calls there is at most one canonical
\* BGPPathA instance per attribute-set value: two calls whose candidates
\* have equal field values return the same instance, the instance returned
\* has the value of the candidate, and a repeated lookup of a value already
\* interned returns that instance again.
DedupInternsOnce ==
    /\ \A r1 \in returned, r2 \in returned :
          heap.attrs[r1.b] = heap.attrs[r2.b] => r1.ret = r2.ret
    /\ \A r \in returned :
          /\ heap.attrs[r.ret] = heap.attrs[r.b]
          /\ heap.attrs[r.b] \in DOMAIN cache
          /\ cache[heap.attrs[r.b]] = r.ret

\* Two goroutines have deduplicated distinct candidates of equal value and
\* got the same instance, and Dedup of an instance returned earlier has
\* returned it again.
DedupSharedReached ==
    /\ \E r1 \in returned, r2 \in returned :
          /\ r1.g # r2.g
          /\ r1.b # r2.b
          /\ heap.attrs[r1.b] = heap.attrs[r2.b]
          /\ r1.ret = r2.ret
          /\ r2.ret # r2.b
    /\ \E r \in returned : r.b = r.ret /\ Cardinality({x \in returned : x.ret = r.b}) > 1

\* C6: for every well-formed path p, BGPPathFromProtoBGPPath(p.ToProto())
\* is Equal to p: the same PathIdentifier, and Select between the two is 0.
RoundTripEqual ==
    res.op = "Equal" =>
        /\ res.bool
        /\ paths.q.PathIdentifier = paths.p.PathIdentifier
        /\ Select(heap, paths.p, paths.q) = 0

====
